---- MODULE Spec2Model ----
(***************************************************************************)
(* Model of the itom signal/slot library (include/itom/signals).           *)
(*                                                                         *)
(* A Signal owns a SignalImpl holding a std::list of shared_ptr<Slot>.     *)
(* A Connection holds two weak_ptr (slot, signal).  An AutoTerminator      *)
(* holds a list of Connection copies and terminates them on destruction.   *)
(*                                                                         *)
(* The std::list is modelled as the sequence of the values of its nodes:   *)
(* nodes are only ever added at the back (emplace_back) and erased from    *)
(* the back (erase(remove_if(..), end()), clear()), so the index in the    *)
(* sequence is the identity of the node, and a list iterator is an index.  *)
(* The heap of Slot objects is a function from slot identities to their    *)
(* fields; a weak_ptr has expired iff its identity is not in the heap.     *)
(*                                                                         *)
(* Emit is a loop over the list; the body of a running slot is user code   *)
(* that may call back into the library, so every library operation may     *)
(* happen either at top level (pc = "idle") or from inside the running     *)
(* slot (pc = "slot").                                                     *)
(***************************************************************************)
EXTENDS Integers, Sequences, FiniteSets, TLC

\* ---- bounds of the model ------------------------------------------------
NumSignals == 2
NumOwners == 1
MaxConnects == 3
MaxBodyOps == 1
MaxIdConnects == 3
NumDisconnectors == 1

Signals == 1..NumSignals
Owners == 1..NumOwners
SlotIds == 1..MaxConnects

\* an empty weak_ptr / a null pointer
Null == 0

\* the two id-based Signal classes, and the Disconnector objects
Variants == {"ITOMSignal", "ITSignals"}
Disconnectors == 1..NumDisconnectors

VARIABLES
    sigAlive,    \* sigAlive[g]: the Signal g (and its SignalImpl) exists
    slots,       \* slots[g]: SignalImpl::slots_, the values of the list nodes
    heap,        \* live Slot objects: identity -> [active, callable, bound]
    nextSlot,    \* identity of the next Slot that make_shared creates
    conns,       \* the Connections returned to the callers, in creation order
    ownerAlive,  \* ownerAlive[o]: the AutoTerminator o exists
    ownerConns,  \* ownerConns[o]: AutoTerminator::connections_
    pc,          \* "idle", "loop" (Emit at the loop test), "slot" (a slot runs)
    emitSig,     \* the signal whose Emit is on the call stack
    it,          \* the list iterator of the range-for of Emit
    itValid,     \* FALSE once the node `it` points to has been erased
    running,     \* the slot that is being invoked (Null if none)
    invoked,     \* slots invoked by the current / last Emit, in order
    atCall,      \* the list of the signal when the current / last Emit began
    expected,    \* the slots of atCall that were non-empty and active then
    passOps,     \* kinds of mutation of emitSig made by slots of this pass
    args,        \* the parameter of the running Emit: how it was passed, its value
    received,    \* the argument values the slots of this pass were called with
    termCalls,   \* termCalls[s]: number of SignalImpl::Terminate(s) executed
    crashed,     \* the process died of undefined behaviour
    bodyOps,     \* library calls made so far by the running slot
    via,         \* via[i]: the owner conns[i] was connected through, or Null
    lastOp,      \* the last library call made, and whether it found its target
    idSignal,    \* idSignal[v]: the id-based Signal of class v: its id counter,
                 \* the keys of slots_, the slot_id_ of each of connections_
    disconnector,\* disconnector[d]: Disconnector d: alive, its connections_
    returned,    \* returned[v]: the ids the Connects of idSignal[v] returned
    idCrashed    \* the process died in a call of an id-based Signal

progVars == <<sigAlive, slots, heap, nextSlot, conns, ownerAlive, ownerConns>>
ghostVars == <<termCalls, via>>
emitVars == <<pc, emitSig, it, itValid, running, invoked, atCall, expected,
              passOps, args, received>>
idVars == <<idSignal, disconnector, returned, idCrashed>>
sigVars == <<sigAlive, slots, heap, nextSlot, conns, ownerAlive, ownerConns,
             pc, emitSig, it, itValid, running, invoked, atCall, expected,
             passOps, args, received, termCalls, crashed, bodyOps, via,
             lastOp>>
vars == <<sigAlive, slots, heap, nextSlot, conns, ownerAlive, ownerConns,
          pc, emitSig, it, itValid, running, invoked, atCall, expected,
          passOps, args, received, termCalls, crashed, bodyOps, via, lastOp,
          idSignal, disconnector, returned, idCrashed>>

\* ---- helpers ------------------------------------------------------------
Range(s) == {s[i] : i \in 1..Len(s)}

Count(s, x) == Cardinality({i \in 1..Len(s) : s[i] = x})

\* detail::Slot constructed by make_shared: active_ = true
Slot(f, o) == [active |-> TRUE, callable |-> f, bound |-> o]

\* Connection(SlotType&&, SignalType&&)
Connection(s, g) == [slot |-> s, signal |-> g]

\* Connection() = default: both weak_ptr empty
EmptyConnection == [slot |-> Null, signal |-> Null]

\* weak_ptr<ISlot>::expired()
SlotExpired(s) == s \notin DOMAIN heap

\* weak_ptr<ISignalImpl>::expired()
SignalExpired(g) == g = Null \/ ~sigAlive[g]

\* Connection::IsTerminated
IsTerminated(c) == SlotExpired(c.slot)

\* an IsActive that answers with the default of active_ when the slot is gone
IsActiveByDefault(c) ==
    IF ~SlotExpired(c.slot) THEN heap[c.slot].active ELSE TRUE

\* Connection::IsActive
IsActive(c) == IF ~SlotExpired(c.slot) THEN heap[c.slot].active ELSE FALSE

\* conversion of a size_t to bool and back to an integer
BoolOfSize(n) == IF n # 0 THEN 1 ELSE 0

\* Signal::GetSlotCount: declared to return bool
GetSlotCount(g) == BoolOfSize(Len(slots[g]))

\* AutoTerminator::GetConnectionCount
GetConnectionCount(o) == Len(ownerConns[o])

\* a release that destroys nothing: a shared_ptr is kept elsewhere
ReleaseNothing(h, old, new) == h

\* the Slot objects left once the shared_ptr of the nodes of `old` that are
\* not nodes of `new` have been released
Release(h, old, new) ==
    [s \in DOMAIN h \ (Range(old) \ Range(new)) |-> h[s]]

\* std::remove_if(first, last, == target) after its find_if located `first`:
\* every later element that is kept is move-assigned to *first++ ; the
\* source of a move becomes a null shared_ptr
RECURSIVE RemoveIfShift(_, _, _, _)
RemoveIfShift(seq, first, i, target) ==
    IF i > Len(seq) THEN <<seq, first>>
    ELSE IF seq[i] # target
         THEN RemoveIfShift([seq EXCEPT ![first] = seq[i], ![i] = Null],
                            first + 1, i + 1, target)
         ELSE RemoveIfShift(seq, first, i + 1, target)

\* std::find_if: index of the first element equal to target, Len+1 if none
FindIf(seq, target) ==
    IF \E i \in 1..Len(seq) : seq[i] = target
    THEN CHOOSE i \in 1..Len(seq) :
            seq[i] = target /\ \A j \in 1..(i - 1) : seq[j] # target
    ELSE Len(seq) + 1

\* std::remove_if: <<node values afterwards, index of the new logical end>>
RemoveIf(seq, target) ==
    LET first == FindIf(seq, target)
    IN IF first > Len(seq) THEN <<seq, first>>
       ELSE RemoveIfShift(seq, first, first + 1, target)

\* an erase that also drops every element behind the one it looks for
EraseRemoveIfTail(seq, target) ==
    IF FindIf(seq, target) <= Len(seq)
    THEN SubSeq(seq, 1, FindIf(seq, target) - 1)
    ELSE seq

\* a Terminate that leaves the list as it is
EraseRemoveIfKept(seq, target) == seq

\* slots_.erase(std::remove_if(...), slots_.end()): the nodes from the new
\* logical end to the back are erased
EraseRemoveIf(seq, target) ==
    LET r == RemoveIf(seq, target)
    IN SubSeq(r[1], 1, r[2] - 1)

\* a loop body that does not look at active_
ShouldInvokeAny(s) == heap[s].callable

\* the test of the loop body of Emit: if (slot->slot_ && slot->active_)
ShouldInvoke(s) == heap[s].callable /\ heap[s].active

\* the value the caller of Emit passes, and what is left in a std::string
\* that has been moved from (the standard library empties it)
EmitValue == "x"
MovedFrom == ""

\* the ways the caller can pass the argument: a named object (EmitArgs is
\* an lvalue reference) or a temporary (EmitArgs is the object type)
ArgKinds == {"named", "temporary"}

\* no Emit is running
NoArgs == [kind |-> "named", val |-> MovedFrom]

\* a call that hands every slot a copy and leaves the parameter alone
AfterCallCopied(a) == a

\* the parameter of Emit after (slot->slot_)(std::forward<EmitArgs>(args)...):
\* the by-value parameter of std::function<void(Args...)> is move-constructed
\* from a forwarded temporary and copy-constructed from a named object
AfterCall(a) ==
    IF a.kind = "temporary" THEN [a EXCEPT !.val = MovedFrom] ELSE a

\* a library call can be made by top-level code or by the running slot
CanCall ==
    /\ ~crashed
    /\ pc \in {"idle", "slot"}
    /\ pc = "slot" => bodyOps < MaxBodyOps

\* the count of the calls of the running slot after one more call
Called == IF pc = "slot" THEN bodyOps + 1 ELSE bodyOps

\* bookkeeping of a mutation of signal g made while a slot runs
NoteOp(g, kind) ==
    IF pc = "slot" /\ g = emitSig THEN passOps \cup {kind} ELSE passOps

\* the frame of Emit, which no library call made by a slot touches
emitFrame == <<pc, emitSig, it, running, invoked, atCall, expected, args,
               received>>

\* ---- initial state ------------------------------------------------------
\* an id-based Signal after construction: actual_slot_id_ (actual_id_) = 0,
\* no slots_, no connections_; disconnected: Disconnect was called on it
NewIdSignal ==
    [alive |-> TRUE, actual_id |-> 0, slots |-> {}, connections |-> <<>>,
     disconnected |-> FALSE]

Init ==
    /\ sigAlive = [g \in Signals |-> TRUE]
    /\ slots = [g \in Signals |-> <<>>]
    /\ heap = [s \in {} |-> Slot(TRUE, Null)]
    /\ nextSlot = 1
    /\ conns = <<>>
    /\ ownerAlive = [o \in Owners |-> TRUE]
    /\ ownerConns = [o \in Owners |-> <<>>]
    /\ pc = "idle"
    /\ emitSig = Null
    /\ it = 1
    /\ itValid = TRUE
    /\ running = Null
    /\ invoked = <<>>
    /\ atCall = <<>>
    /\ expected = <<>>
    /\ passOps = {}
    /\ args = NoArgs
    /\ received = <<>>
    /\ termCalls = [s \in SlotIds |-> 0]
    /\ crashed = FALSE
    /\ bodyOps = 0
    /\ via = <<>>
    /\ lastOp = [op |-> "none", hit |-> FALSE]
    /\ idSignal = [v \in Variants |-> NewIdSignal]
    /\ disconnector = [d \in Disconnectors |->
                          [alive |-> TRUE, connections |-> <<>>]]
    /\ returned = [v \in Variants |-> <<>>]
    /\ idCrashed = FALSE

\* ---- Signal::Connect ----------------------------------------------------
\* an emplace_back whose new Slot takes the identity of a destroyed one
EmplaceBackReused(g, f, o) ==
    LET n == IF \E k \in 1..(nextSlot - 1) : k \notin DOMAIN heap
             THEN CHOOSE k \in 1..(nextSlot - 1) : k \notin DOMAIN heap
             ELSE nextSlot
    IN /\ slots' = [slots EXCEPT ![g] = Append(@, n)]
       /\ heap' = [s \in DOMAIN heap \cup {n} |->
                       IF s = n THEN Slot(f, o) ELSE heap[s]]
       /\ nextSlot' = nextSlot + 1

\* an emplace that puts the new Slot at the front of the list
EmplaceFront(g, f, o) ==
    /\ slots' = [slots EXCEPT ![g] = <<nextSlot>> \o @]
    /\ heap' = [s \in DOMAIN heap \cup {nextSlot} |->
                    IF s = nextSlot THEN Slot(f, o) ELSE heap[s]]
    /\ nextSlot' = nextSlot + 1

\* the state of the signal and the heap after
\* impl_->slots_.emplace_back(std::make_shared<Slot>(function))
EmplaceBack(g, f, o) ==
    /\ slots' = [slots EXCEPT ![g] = Append(@, nextSlot)]
    /\ heap' = [s \in DOMAIN heap \cup {nextSlot} |->
                    IF s = nextSlot THEN Slot(f, o) ELSE heap[s]]
    /\ nextSlot' = nextSlot + 1

\* Signal::Connect(S&& function); f: the std::function built from it is
\* non-empty
Connect(g, f) ==
    /\ CanCall
    /\ sigAlive[g]
    /\ Len(conns) < MaxConnects
    /\ EmplaceBack(g, f, Null)
    /\ conns' = Append(conns, Connection(nextSlot, g))
    /\ via' = Append(via, Null)
    /\ passOps' = NoteOp(g, "connect")
    /\ bodyOps' = Called
    /\ lastOp' = [op |-> "Connect", hit |-> TRUE]
    /\ UNCHANGED <<sigAlive, ownerAlive, ownerConns, emitFrame, itValid,
                   termCalls, crashed>>
    /\ UNCHANGED idVars

\* a Connect with terminator that hands the owner two Connections
ConnectTerminatorTwice(g, f, o, b) ==
    /\ CanCall
    /\ sigAlive[g]
    /\ Len(conns) < MaxConnects
    /\ IF o # Null
       THEN /\ ownerAlive[o]
            /\ EmplaceBack(g, f, b)
            /\ ownerConns' = [ownerConns EXCEPT
                                ![o] = @ \o <<Connection(nextSlot, g),
                                              Connection(nextSlot, g)>>]
            /\ conns' = Append(conns, Connection(nextSlot, g))
            /\ passOps' = NoteOp(g, "connect")
       ELSE /\ conns' = Append(conns, EmptyConnection)
            /\ UNCHANGED <<slots, heap, nextSlot, ownerConns, passOps>>
    /\ via' = Append(via, o)
    /\ bodyOps' = Called
    /\ lastOp' = [op |-> "ConnectTerminator", hit |-> o # Null]
    /\ UNCHANGED <<sigAlive, ownerAlive, emitFrame, itValid, termCalls,
                   crashed>>
    /\ UNCHANGED idVars

\* a Connect with terminator that hands the owner a Connection to the
\* first slot of the list instead of the new one
ConnectTerminatorFront(g, f, o, b) ==
    /\ CanCall
    /\ sigAlive[g]
    /\ Len(conns) < MaxConnects
    /\ IF o # Null
       THEN /\ ownerAlive[o]
            /\ EmplaceBack(g, f, b)
            /\ ownerConns' = [ownerConns EXCEPT
                                ![o] = Append(@, Connection(slots'[g][1], g))]
            /\ conns' = Append(conns, Connection(nextSlot, g))
            /\ passOps' = NoteOp(g, "connect")
       ELSE /\ conns' = Append(conns, EmptyConnection)
            /\ UNCHANGED <<slots, heap, nextSlot, ownerConns, passOps>>
    /\ via' = Append(via, o)
    /\ bodyOps' = Called
    /\ lastOp' = [op |-> "ConnectTerminator", hit |-> o # Null]
    /\ UNCHANGED <<sigAlive, ownerAlive, emitFrame, itValid, termCalls,
                   crashed>>
    /\ UNCHANGED idVars

\* a Connect with terminator that does not test the pointer before it
\* stores the slot
ConnectTerminatorUntested(g, f, o, b) ==
    /\ CanCall
    /\ sigAlive[g]
    /\ Len(conns) < MaxConnects
    /\ EmplaceBack(g, f, b)
    /\ ownerConns' = IF o # Null
                     THEN [ownerConns EXCEPT
                             ![o] = Append(@, Connection(nextSlot, g))]
                     ELSE ownerConns
    /\ o # Null => ownerAlive[o]
    /\ conns' = Append(conns, IF o # Null THEN Connection(nextSlot, g)
                                          ELSE EmptyConnection)
    /\ passOps' = NoteOp(g, "connect")
    /\ via' = Append(via, o)
    /\ bodyOps' = Called
    /\ lastOp' = [op |-> "ConnectTerminator", hit |-> o # Null]
    /\ UNCHANGED <<sigAlive, ownerAlive, emitFrame, itValid, termCalls,
                   crashed>>
    /\ UNCHANGED idVars

\* a Connect with terminator that does not hand the Connection to the owner
ConnectTerminatorUnregistered(g, f, o, b) ==
    /\ CanCall
    /\ sigAlive[g]
    /\ Len(conns) < MaxConnects
    /\ IF o # Null
       THEN /\ ownerAlive[o]
            /\ EmplaceBack(g, f, b)
            /\ conns' = Append(conns, Connection(nextSlot, g))
            /\ passOps' = NoteOp(g, "connect")
            /\ UNCHANGED ownerConns
       ELSE /\ conns' = Append(conns, EmptyConnection)
            /\ UNCHANGED <<slots, heap, nextSlot, ownerConns, passOps>>
    /\ via' = Append(via, o)
    /\ bodyOps' = Called
    /\ lastOp' = [op |-> "ConnectTerminator", hit |-> o # Null]
    /\ UNCHANGED <<sigAlive, ownerAlive, emitFrame, itValid, termCalls,
                   crashed>>
    /\ UNCHANGED idVars

\* Signal::Connect(S&& function, AutoTerminator* terminator); o = Null is a
\* null terminator; b is the owner the callable itself refers to (Null for
\* a plain callable)
ConnectTerminator(g, f, o, b) ==
    /\ CanCall
    /\ sigAlive[g]
    /\ Len(conns) < MaxConnects
    /\ IF o # Null
       THEN /\ ownerAlive[o]
            /\ EmplaceBack(g, f, b)
            /\ ownerConns' = [ownerConns EXCEPT
                                ![o] = Append(@, Connection(nextSlot, g))]
            /\ conns' = Append(conns, Connection(nextSlot, g))
            /\ passOps' = NoteOp(g, "connect")
       ELSE /\ conns' = Append(conns, EmptyConnection)
            /\ UNCHANGED <<slots, heap, nextSlot, ownerConns, passOps>>
    /\ via' = Append(via, o)
    /\ bodyOps' = Called
    /\ lastOp' = [op |-> "ConnectTerminator", hit |-> o # Null]
    /\ UNCHANGED <<sigAlive, ownerAlive, emitFrame, itValid, termCalls,
                   crashed>>
    /\ UNCHANGED idVars

\* Signal::Connect(S&& function, D* terminator) with a member function of D:
\* wraps it in a lambda that captures the terminator pointer by value and
\* calls the overload above
ConnectMember(g, o) == ConnectTerminator(g, TRUE, o, o)

\* ---- Connection::Terminate ----------------------------------------------
\* SignalImpl::Terminate(slot) on signal g, applied to a record st of the
\* fields it can change; the iterator of a running Emit of g is left
\* pointing to an erased node when its node is beyond the new back
SignalImplTerminate(st, g, s) ==
    LET new == EraseRemoveIf(st.slots[g], s)
        inPass == pc = "slot" /\ g = emitSig
    IN [slots |-> [st.slots EXCEPT ![g] = new],
        heap |-> st.heap,
        termCalls |-> [st.termCalls EXCEPT ![s] = @ + 1],
        itValid |-> st.itValid /\ ~(inPass /\ it > Len(new)),
        passOps |-> IF inPass THEN st.passOps \cup {"terminate"}
                              ELSE st.passOps]

\* a Terminate that does not test whether the slot is still alive
ConnectionTerminateUnchecked(st, c) ==
    IF c.signal # Null /\ sigAlive[c.signal]
    THEN SignalImplTerminate(st, c.signal, c.slot)
    ELSE st

\* Connection::Terminate on the connection c: both weak_ptr are locked for
\* the call and the locks are released when it returns
ConnectionTerminate(st, c) ==
    IF c.slot \in DOMAIN st.heap
    THEN IF c.signal # Null /\ sigAlive[c.signal]
         THEN LET r == SignalImplTerminate(st, c.signal, c.slot)
              IN [r EXCEPT !.heap = Release(st.heap, st.slots[c.signal],
                                            r.slots[c.signal])]
         ELSE st
    ELSE st

\* the fields a Terminate can change, as they are now
CurrentSt ==
    [slots |-> slots, heap |-> heap, termCalls |-> termCalls,
     itValid |-> itValid, passOps |-> passOps]

\* the fields a Terminate can change become those of r
Becomes(r) ==
    /\ slots' = r.slots
    /\ heap' = r.heap
    /\ termCalls' = r.termCalls
    /\ itValid' = r.itValid
    /\ passOps' = r.passOps

\* the caller calls Terminate() on the i-th Connection it was given
Terminate(i) ==
    /\ CanCall
    /\ i \in 1..Len(conns)
    /\ Becomes(ConnectionTerminate(CurrentSt, conns[i]))
    /\ bodyOps' = Called
    /\ lastOp' = [op |-> "Terminate", hit |-> ~IsTerminated(conns[i])]
    /\ UNCHANGED <<sigAlive, nextSlot, conns, ownerAlive, ownerConns,
                   emitFrame, crashed, via>>
    /\ UNCHANGED idVars

\* an Activate that ignores its argument and always switches the slot on
ActivateAlwaysOn(i, b) ==
    /\ CanCall
    /\ i \in 1..Len(conns)
    /\ LET c == conns[i]
       IN IF c.slot \in DOMAIN heap
          THEN /\ heap' = [heap EXCEPT ![c.slot].active = TRUE]
               /\ passOps' = NoteOp(c.signal, "activate")
          ELSE UNCHANGED <<heap, passOps>>
    /\ bodyOps' = Called
    /\ lastOp' = [op |-> "Activate", hit |-> ~IsTerminated(conns[i])]
    /\ UNCHANGED <<sigAlive, slots, nextSlot, conns, ownerAlive, ownerConns,
                   emitFrame, itValid, termCalls, crashed, via>>
    /\ UNCHANGED idVars

\* ---- Connection::Activate -----------------------------------------------
Activate(i, b) ==
    /\ CanCall
    /\ i \in 1..Len(conns)
    /\ LET c == conns[i]
       IN IF c.slot \in DOMAIN heap
          THEN /\ heap' = [heap EXCEPT ![c.slot].active = b]
               /\ passOps' = NoteOp(c.signal, "activate")
          ELSE UNCHANGED <<heap, passOps>>
    /\ bodyOps' = Called
    /\ lastOp' = [op |-> "Activate", hit |-> ~IsTerminated(conns[i])]
    /\ UNCHANGED <<sigAlive, slots, nextSlot, conns, ownerAlive, ownerConns,
                   emitFrame, itValid, termCalls, crashed, via>>
    /\ UNCHANGED idVars

\* ---- AutoTerminator -----------------------------------------------------
\* a TerminateAll that terminates nothing
TerminateEachSkipped(st, cs) == st

\* the loop of AutoTerminator::TerminateAll over connections_
RECURSIVE TerminateEach(_, _)
TerminateEach(st, cs) ==
    IF cs = <<>> THEN st
    ELSE TerminateEach(ConnectionTerminate(st, Head(cs)), Tail(cs))

\* AutoTerminator::TerminateAll: the list itself is left as it is
OwnerTerminateAll(o) ==
    /\ CanCall
    /\ ownerAlive[o]
    /\ Becomes(TerminateEach(CurrentSt, ownerConns[o]))
    /\ bodyOps' = Called
    /\ lastOp' = [op |-> "OwnerTerminateAll", hit |-> ownerConns[o] # <<>>]
    /\ UNCHANGED <<sigAlive, nextSlot, conns, ownerAlive, ownerConns,
                   emitFrame, crashed, via>>
    /\ UNCHANGED idVars

\* AutoTerminator::~AutoTerminator: TerminateAll(), then the members go
DestroyOwner(o) ==
    /\ CanCall
    /\ ownerAlive[o]
    /\ Becomes(TerminateEach(CurrentSt, ownerConns[o]))
    /\ ownerAlive' = [ownerAlive EXCEPT ![o] = FALSE]
    /\ ownerConns' = [ownerConns EXCEPT ![o] = <<>>]
    /\ bodyOps' = Called
    /\ lastOp' = [op |-> "DestroyOwner", hit |-> ownerConns[o] # <<>>]
    /\ UNCHANGED <<sigAlive, nextSlot, conns, emitFrame, crashed, via>>
    /\ UNCHANGED idVars

\* a TerminateAll of the signal that leaves the first slot in the list
SignalTerminateAllButFirst(g) ==
    /\ CanCall
    /\ sigAlive[g]
    /\ slots' = [slots EXCEPT ![g] = IF @ = <<>> THEN @ ELSE <<Head(@)>>]
    /\ heap' = Release(heap, slots[g],
                       IF slots[g] = <<>> THEN <<>> ELSE <<Head(slots[g])>>)
    /\ itValid' = (itValid /\ ~(pc = "slot" /\ g = emitSig))
    /\ passOps' = NoteOp(g, "clear")
    /\ bodyOps' = Called
    /\ lastOp' = [op |-> "SignalTerminateAll", hit |-> slots[g] # <<>>]
    /\ UNCHANGED <<sigAlive, nextSlot, conns, ownerAlive, ownerConns,
                   emitFrame, termCalls, crashed, via>>
    /\ UNCHANGED idVars

\* a destruction of the signal that leaves its Slots on the heap
DestroySignalLeaking(g) ==
    /\ CanCall
    /\ sigAlive[g]
    /\ pc = "slot" => g # emitSig
    /\ sigAlive' = [sigAlive EXCEPT ![g] = FALSE]
    /\ slots' = [slots EXCEPT ![g] = <<>>]
    /\ bodyOps' = Called
    /\ lastOp' = [op |-> "DestroySignal", hit |-> slots[g] # <<>>]
    /\ UNCHANGED <<heap, nextSlot, conns, ownerAlive, ownerConns, emitFrame,
                   itValid, passOps, termCalls, crashed, via>>
    /\ UNCHANGED idVars

\* ---- Signal::TerminateAll and Signal::~Signal ---------------------------
\* Signal::TerminateAll: impl_->slots_.clear()
SignalTerminateAll(g) ==
    /\ CanCall
    /\ sigAlive[g]
    /\ slots' = [slots EXCEPT ![g] = <<>>]
    /\ heap' = Release(heap, slots[g], <<>>)
    /\ itValid' = (itValid /\ ~(pc = "slot" /\ g = emitSig))
    /\ passOps' = NoteOp(g, "clear")
    /\ bodyOps' = Called
    /\ lastOp' = [op |-> "SignalTerminateAll", hit |-> slots[g] # <<>>]
    /\ UNCHANGED <<sigAlive, nextSlot, conns, ownerAlive, ownerConns,
                   emitFrame, termCalls, crashed, via>>
    /\ UNCHANGED idVars

\* the Signal g goes out of scope: impl_ was the only shared_ptr to the
\* SignalImpl, so the list and every Slot of it are destroyed.  A signal is
\* not destroyed from inside its own Emit.
DestroySignal(g) ==
    /\ CanCall
    /\ sigAlive[g]
    /\ pc = "slot" => g # emitSig
    /\ sigAlive' = [sigAlive EXCEPT ![g] = FALSE]
    /\ slots' = [slots EXCEPT ![g] = <<>>]
    /\ heap' = Release(heap, slots[g], <<>>)
    /\ bodyOps' = Called
    /\ lastOp' = [op |-> "DestroySignal", hit |-> slots[g] # <<>>]
    /\ UNCHANGED <<nextSlot, conns, ownerAlive, ownerConns, emitFrame,
                   itValid, passOps, termCalls, crashed, via>>
    /\ UNCHANGED idVars

\* ---- Signal::operator() (Emit) ------------------------------------------
\* the call: the range-for takes begin() of impl_->slots_
EmitBegin(g, k) ==
    /\ ~crashed
    /\ pc = "idle"
    /\ sigAlive[g]
    /\ pc' = "loop"
    /\ emitSig' = g
    /\ it' = 1
    /\ itValid' = TRUE
    /\ running' = Null
    /\ invoked' = <<>>
    /\ atCall' = slots[g]
    /\ expected' = SelectSeq(slots[g],
                       LAMBDA s : heap[s].callable /\ heap[s].active)
    /\ passOps' = {}
    /\ args' = [kind |-> k, val |-> EmitValue]
    /\ received' = <<>>
    /\ lastOp' = [op |-> "Emit", hit |-> slots[g] # <<>>]
    /\ UNCHANGED <<progVars, ghostVars, crashed, bodyOps>>
    /\ UNCHANGED idVars

\* Emit returns: its frame (and the bookkeeping of the pass) is gone
EmitReturn ==
    /\ pc' = "idle"
    /\ emitSig' = Null
    /\ it' = 1
    /\ itValid' = TRUE
    /\ running' = Null
    /\ invoked' = <<>>
    /\ atCall' = <<>>
    /\ expected' = <<>>
    /\ passOps' = {}
    /\ args' = NoArgs
    /\ received' = <<>>
    /\ bodyOps' = 0
    /\ lastOp' = [op |-> "EmitReturn", hit |-> invoked # <<>>]

\* one evaluation of the loop test and of the if of the body: the loop ends
\* at end(), an empty or inactive slot is stepped over, any other is invoked
EmitStep ==
    /\ ~crashed
    /\ pc = "loop"
    /\ IF it > Len(slots[emitSig])
       THEN EmitReturn
       ELSE LET s == slots[emitSig][it]
            IN /\ IF ShouldInvoke(s)
                  THEN /\ pc' = "slot"
                       /\ running' = s
                       /\ invoked' = Append(invoked, s)
                       /\ received' = Append(received, args.val)
                       /\ args' = AfterCall(args)
                       /\ UNCHANGED it
                  ELSE /\ it' = it + 1
                       /\ UNCHANGED <<pc, running, invoked, args, received>>
               /\ UNCHANGED <<emitSig, itValid, atCall, expected, passOps,
                              bodyOps, lastOp>>
    /\ UNCHANGED <<progVars, ghostVars, crashed>>
    /\ UNCHANGED idVars

\* the running slot returns and the range-for increments its iterator.
\* Incrementing an iterator whose node was erased is undefined: the stale
\* next pointer may still lead to end(), or the process dies.
SlotReturn ==
    /\ ~crashed
    /\ pc = "slot"
    /\ IF itValid
       THEN /\ it' = it + 1
            /\ pc' = "loop"
            /\ running' = Null
            /\ bodyOps' = 0
            /\ UNCHANGED <<emitSig, itValid, invoked, atCall, expected,
                           passOps, args, received, crashed, lastOp>>
       ELSE \/ EmitReturn /\ UNCHANGED crashed
            \/ /\ crashed' = TRUE
               /\ UNCHANGED <<emitVars, bodyOps, lastOp>>
    /\ UNCHANGED <<progVars, ghostVars>>
    /\ UNCHANGED idVars

\* ---- id-based Signal (ITOMSignal.h, ITSignals.h) ------------------------
\* std::map::emplace on the keys of slots_: an existing key is left alone
MapEmplace(keys, k) == keys \cup {k}

\* connections_.emplace_back(std::make_shared<Connection>(id, *this)) of
\* the signal sig
EmplaceConnectionRecord(sig, id) ==
    [sig EXCEPT !.connections = Append(@, id)]

\* Disconnector::AddConnection of a weak_ptr to connections_.back() of the
\* signal v, whose connections_ is now n long
AddConnection(d, v, n) ==
    [disconnector EXCEPT
        ![d].connections = Append(@, [signal |-> v, index |-> n])]

\* Signal::Connect(S&& slot) applied to the signal sig:
\* slots_.emplace(actual_slot_id_, slot); return actual_slot_id_++
\* gives <<the signal afterwards, the id returned>>
ConnectSlot(sig) ==
    <<[sig EXCEPT !.slots = MapEmplace(@, sig.actual_id),
                  !.actual_id = @ + 1],
      sig.actual_id>>

\* a Connect that has taken one id for the Connection record and takes the
\* next one for the slot
ITOMConnectDisconnectorTwice(d) ==
    /\ ~idCrashed
    /\ idSignal["ITOMSignal"].alive
    /\ idSignal["ITOMSignal"].actual_id + 1 < MaxIdConnects
    /\ d # Null
    /\ disconnector[d].alive
    /\ LET rec == EmplaceConnectionRecord(idSignal["ITOMSignal"],
                                          idSignal["ITOMSignal"].actual_id)
           r == ConnectSlot([rec EXCEPT !.actual_id = @ + 1])
       IN /\ disconnector' =
                AddConnection(d, "ITOMSignal", Len(rec.connections))
          /\ idSignal' = [idSignal EXCEPT !["ITOMSignal"] = r[1]]
          /\ returned' = [returned EXCEPT !["ITOMSignal"] = Append(@, r[2])]
          /\ UNCHANGED idCrashed
    /\ UNCHANGED sigVars

\* ITOMSignal.h, Signal::Connect(S&& slot)
ITOMConnect ==
    /\ ~idCrashed
    /\ idSignal["ITOMSignal"].alive
    /\ idSignal["ITOMSignal"].actual_id < MaxIdConnects
    /\ LET r == ConnectSlot(idSignal["ITOMSignal"])
       IN /\ idSignal' = [idSignal EXCEPT !["ITOMSignal"] = r[1]]
          /\ returned' = [returned EXCEPT !["ITOMSignal"] = Append(@, r[2])]
    /\ UNCHANGED <<disconnector, idCrashed, sigVars>>

\* ITOMSignal.h, Signal::Connect(S&& slot, Disconnector* disconnector): the
\* Connection record is made with the current id, handed to the
\* disconnector, and Connect(slot) stores the slot.  A null disconnector is
\* dereferenced after the record was stored.
ITOMConnectDisconnector(d) ==
    /\ ~idCrashed
    /\ idSignal["ITOMSignal"].alive
    /\ idSignal["ITOMSignal"].actual_id < MaxIdConnects
    /\ LET rec == EmplaceConnectionRecord(idSignal["ITOMSignal"],
                                          idSignal["ITOMSignal"].actual_id)
           r == ConnectSlot(rec)
       IN IF d = Null
          THEN /\ idSignal' = [idSignal EXCEPT !["ITOMSignal"] = rec]
               /\ idCrashed' = TRUE
               /\ UNCHANGED <<disconnector, returned>>
          ELSE /\ disconnector[d].alive
               /\ disconnector' =
                     AddConnection(d, "ITOMSignal", Len(rec.connections))
               /\ idSignal' = [idSignal EXCEPT !["ITOMSignal"] = r[1]]
               /\ returned' =
                     [returned EXCEPT !["ITOMSignal"] = Append(@, r[2])]
               /\ UNCHANGED idCrashed
    /\ UNCHANGED sigVars

\* ITSignals.h, Signal::Connect(S&& slot)
ITSConnect ==
    /\ ~idCrashed
    /\ idSignal["ITSignals"].alive
    /\ idSignal["ITSignals"].actual_id < MaxIdConnects
    /\ LET r == ConnectSlot(idSignal["ITSignals"])
       IN /\ idSignal' = [idSignal EXCEPT !["ITSignals"] = r[1]]
          /\ returned' = [returned EXCEPT !["ITSignals"] = Append(@, r[2])]
    /\ UNCHANGED <<disconnector, idCrashed, sigVars>>

\* ITSignals.h, Signal::Connect(S&& slot, Disconnector* disconnector): the
\* slot is stored under the current id, the Connection record is made with
\* it and handed to the disconnector, then the id is returned and
\* incremented.  A null disconnector is dereferenced after both were stored.
ITSConnectDisconnector(d) ==
    /\ ~idCrashed
    /\ idSignal["ITSignals"].alive
    /\ idSignal["ITSignals"].actual_id < MaxIdConnects
    /\ LET sig == idSignal["ITSignals"]
           stored == [sig EXCEPT !.slots = MapEmplace(@, sig.actual_id)]
           rec == EmplaceConnectionRecord(stored, stored.actual_id)
       IN IF d = Null
          THEN /\ idSignal' = [idSignal EXCEPT !["ITSignals"] = rec]
               /\ idCrashed' = TRUE
               /\ UNCHANGED <<disconnector, returned>>
          ELSE /\ disconnector[d].alive
               /\ disconnector' =
                     AddConnection(d, "ITSignals", Len(rec.connections))
               /\ idSignal' = [idSignal EXCEPT
                                 !["ITSignals"] =
                                     [rec EXCEPT !.actual_id = @ + 1]]
               /\ returned' = [returned EXCEPT
                                 !["ITSignals"] = Append(@, rec.actual_id)]
               /\ UNCHANGED idCrashed
    /\ UNCHANGED sigVars

\* Signal::Disconnect(slot_id) applied to the signals sigs: slots_.erase
SlotsErase(sigs, v, id) ==
    [sigs EXCEPT ![v].slots = @ \ {id}, ![v].disconnected = TRUE]

\* the caller calls Disconnect(id) on the signal of class v
IdDisconnect(v, id) ==
    /\ ~idCrashed
    /\ idSignal[v].alive
    /\ idSignal' = SlotsErase(idSignal, v, id)
    /\ UNCHANGED <<disconnector, returned, idCrashed, sigVars>>

\* the loop of ~Disconnector over connections_: a weak_ptr locks while its
\* signal exists, and then the signal disconnects the recorded slot_id_
RECURSIVE DisconnectEach(_, _)
DisconnectEach(sigs, ws) ==
    IF ws = <<>> THEN sigs
    ELSE LET w == Head(ws)
         IN DisconnectEach(
                IF sigs[w.signal].alive
                THEN SlotsErase(sigs, w.signal,
                                sigs[w.signal].connections[w.index])
                ELSE sigs,
                Tail(ws))

\* Disconnector::~Disconnector
DestroyDisconnector(d) ==
    /\ ~idCrashed
    /\ disconnector[d].alive
    /\ idSignal' = DisconnectEach(idSignal, disconnector[d].connections)
    /\ disconnector' = [disconnector EXCEPT
                           ![d] = [alive |-> FALSE, connections |-> <<>>]]
    /\ UNCHANGED <<returned, idCrashed, sigVars>>

\* the id-based Signal of class v goes out of scope: its slots_ and the
\* Connection records its connections_ owned are destroyed
IdDestroySignal(v) ==
    /\ ~idCrashed
    /\ idSignal[v].alive
    /\ idSignal' = [idSignal EXCEPT
                       ![v] = [@ EXCEPT !.alive = FALSE, !.slots = {},
                                        !.connections = <<>>]]
    /\ UNCHANGED <<disconnector, returned, idCrashed, sigVars>>

IdNext ==
    \/ ITOMConnect
    \/ \E d \in Disconnectors \cup {Null} : ITOMConnectDisconnector(d)
    \/ ITSConnect
    \/ \E d \in Disconnectors \cup {Null} : ITSConnectDisconnector(d)
    \/ \E v \in Variants, id \in 0..MaxIdConnects : IdDisconnect(v, id)
    \/ \E d \in Disconnectors : DestroyDisconnector(d)
    \/ \E v \in Variants : IdDestroySignal(v)

IdSpec == Init /\ [][IdNext]_vars

\* ---- specification ------------------------------------------------------
Next ==
    \/ \E g \in Signals, f \in BOOLEAN : Connect(g, f)
    \/ \E g \in Signals, f \in BOOLEAN, o \in Owners \cup {Null} :
          ConnectTerminator(g, f, o, Null)
    \/ \E g \in Signals, o \in Owners \cup {Null} : ConnectMember(g, o)
    \/ \E i \in 1..MaxConnects : Terminate(i)
    \/ \E i \in 1..MaxConnects, b \in BOOLEAN : Activate(i, b)
    \/ \E o \in Owners : OwnerTerminateAll(o)
    \/ \E o \in Owners : DestroyOwner(o)
    \/ \E g \in Signals : SignalTerminateAll(g)
    \/ \E g \in Signals : DestroySignal(g)
    \/ \E g \in Signals, k \in ArgKinds : EmitBegin(g, k)
    \/ EmitStep
    \/ SlotReturn

Spec == Init /\ [][Next]_vars

\* ---- properties ----------------------------------------------------------
\* the loop test of Emit is about to fail: the pass has made all its calls
PassDone == ~crashed /\ pc = "loop" /\ it > Len(slots[emitSig])

\* every Connection there is: those given to callers and those of the owners
AllConnections ==
    Range(conns) \cup UNION {Range(ownerConns[o]) : o \in Owners}

\* C1 (state part): a Connection whose signal or whose owner has been
\* destroyed reports IsTerminated(), and whatever an operation can reach is
\* alive: every element of a live signal's list is a live Slot, and a slot
\* whose callable refers to an owner is in no list once that owner is gone.
DestructionSafe ==
    /\ \A c \in AllConnections : SignalExpired(c.signal) => IsTerminated(c)
    /\ \A i \in 1..Len(conns) :
          (via[i] # Null /\ ~ownerAlive[via[i]]) => IsTerminated(conns[i])
    /\ \A g \in Signals : \A s \in Range(slots[g]) :
          /\ sigAlive[g]
          /\ s \in DOMAIN heap
          /\ heap[s].bound # Null => ownerAlive[heap[s].bound]

\* C1 (step part): destroying an owner all of whose signals are gone calls
\* SignalImpl::Terminate for no slot and changes no list
OwnerAfterSignal ==
    \A o \in Owners :
        (/\ lastOp'.op = "DestroyOwner"
         /\ \A c \in Range(ownerConns[o]) : SignalExpired(c.signal)
         /\ DestroyOwner(o))
        => UNCHANGED <<slots, heap, termCalls>>

C2_EmitInOrder == (PassDone /\ passOps = {}) => invoked = expected

\* a quiet pass over a list with two invocable slots and one that is not
C2_Witness ==
    /\ PassDone /\ passOps = {}
    /\ Len(invoked) >= 2
    /\ Len(atCall) > Len(invoked)

\* C3: a pass whose slots only terminated connections has invoked exactly
\* once every slot that was connected and active at the call and has not
\* been terminated.
C3_SurvivorsInvokedOnce ==
    (PassDone /\ passOps = {"terminate"}) =>
        \A s \in Range(expected) :
            s \in DOMAIN heap => Count(invoked, s) = 1

\* C4: Emit never invokes a slot on which SignalImpl::Terminate has been
\* executed, in the pass of the removal or in a later one.
C4_RemovedNotInvoked ==
    [][(pc = "loop" /\ pc' = "slot") =>
          (running' \in DOMAIN heap /\ termCalls[running'] = 0)]_vars

\* a pass is over in which a slot that was due was terminated by a slot
\* that ran before it, and was not invoked
C4_Witness ==
    /\ PassDone /\ "terminate" \in passOps
    /\ invoked # <<>>
    /\ \E s \in Range(expected) :
          termCalls[s] = 1 /\ s \notin Range(invoked)

\* C5: a pass invokes only slots that were in the list when Emit was called.
C5_OnlySlotsAtCall == PassDone => Range(invoked) \subseteq Range(atCall)

\* C6: after a Terminate made by a running slot the position of the
\* traversal is an element of the list, and the pass does not die.
C6_PositionStaysValid ==
    /\ ~crashed
    /\ (pc = "slot" /\ "terminate" \in passOps) =>
          (itValid /\ it <= Len(slots[emitSig]))

\* C7 (step part): Terminate on a Connection whose slot is in a live signal
\* leaves the Connection terminated and the slot out of the list; if it
\* was the only slot the list is empty and the slot count is 0
TerminateRemoves ==
    \A i \in 1..Len(conns) :
        (/\ lastOp'.op = "Terminate"
         /\ ~IsTerminated(conns[i])
         /\ Terminate(i)) =>
            /\ IsTerminated(conns[i])'
            /\ conns[i].slot \notin Range(slots'[conns[i].signal])
            /\ Len(slots[conns[i].signal]) = 1 =>
                  /\ slots'[conns[i].signal] = <<>>
                  /\ GetSlotCount(conns[i].signal)' = 0

\* C7 (step part): the slot Emit invokes is not that of a terminated
\* Connection
TerminatedNotInvoked ==
    (pc = "loop" /\ pc' = "slot") =>
        \A i \in 1..Len(conns) :
            IsTerminated(conns[i]) => running' # conns[i].slot

\* C7: after Terminate the Connection is terminated and no later Emit
\* invokes its slot; an Emit of a signal left without slots invokes nothing.
C7_TerminateEffect ==
    /\ [][TerminateRemoves /\ TerminatedNotInvoked]_vars
    /\ []((PassDone /\ atCall = <<>>) => invoked = <<>>)

\* an Emit of a signal whose only connection was terminated has run
C7_Witness ==
    /\ PassDone /\ atCall = <<>> /\ invoked = <<>>
    /\ GetSlotCount(emitSig) = 0
    /\ \E i \in 1..Len(conns) :
          /\ conns[i].signal = emitSig
          /\ termCalls[conns[i].slot] = 1
          /\ IsTerminated(conns[i])
          /\ \A j \in 1..Len(conns) : conns[j].signal = emitSig => j = i

\* C8: a Terminate on a Connection that is already terminated, by the
\* caller or by the owner's TerminateAll, changes nothing.
C8_TerminateIdempotent ==
    [][/\ \A i \in 1..Len(conns) :
             (/\ lastOp'.op = "Terminate"
              /\ IsTerminated(conns[i])
              /\ Terminate(i)) =>
                 /\ UNCHANGED <<progVars, ghostVars, itValid, passOps>>
                 /\ IsTerminated(conns[i])'
       /\ \A o \in Owners :
             (/\ lastOp'.op = "OwnerTerminateAll"
              /\ \A c \in Range(ownerConns[o]) : IsTerminated(c)
              /\ OwnerTerminateAll(o)) =>
                 UNCHANGED <<progVars, ghostVars, itValid, passOps>>]_vars

\* the last call was a Terminate that found its slot gone, and every
\* Connection there is had been terminated by a Terminate before
C8_Witness ==
    /\ lastOp = [op |-> "Terminate", hit |-> FALSE]
    /\ Len(conns) >= 2
    /\ \A i \in 1..Len(conns) :
          conns[i].slot # Null /\ termCalls[conns[i].slot] = 1
    /\ \E g \in Signals : sigAlive[g]

\* C9: a Connection that reports IsTerminated() does so after every step.
C9_TerminatedAbsorbing ==
    [][\A c \in AllConnections : IsTerminated(c) => IsTerminated(c)']_vars

\* a Connect has just succeeded on a signal of which an earlier Connection
\* had been terminated
C9_Witness ==
    /\ lastOp.op \in {"Connect", "ConnectTerminator"} /\ lastOp.hit
    /\ Len(conns) >= 2
    /\ ~IsTerminated(conns[Len(conns)])
    /\ \E i \in 1..(Len(conns) - 1) :
          /\ conns[i].slot # Null
          /\ IsTerminated(conns[i])
          /\ conns[i].signal = conns[Len(conns)].signal

\* C10: GetSlotCount of a live signal is the number of Connections made on
\* it that are not terminated.
C10_SlotCountExact ==
    \A g \in Signals :
        sigAlive[g] =>
            GetSlotCount(g) =
                Cardinality({i \in 1..Len(conns) :
                                conns[i].signal = g /\ ~IsTerminated(conns[i])})

\* what a call made by a slot or by top-level code can change, besides the
\* bookkeeping of the calls
libVars == <<progVars, ghostVars, itValid, passOps>>

\* the index of slot s in the list seq (0 if it is not there)
Position(seq, s) ==
    IF \E k \in 1..Len(seq) : seq[k] = s
    THEN CHOOSE k \in 1..Len(seq) : seq[k] = s
    ELSE 0

\* C11 (step part): Activate(b) on a live Connection sets the flag of its
\* slot to b and nothing else: the lists, the set of live slots and every
\* other slot are as before, and the Connection is not terminated
ActivateOnlySetsFlag ==
    \A i \in 1..Len(conns) : \A b \in BOOLEAN :
        (/\ lastOp'.op = "Activate"
         /\ ~IsTerminated(conns[i])
         /\ Activate(i, b)) =>
            /\ slots' = slots
            /\ DOMAIN heap' = DOMAIN heap
            /\ ~IsTerminated(conns[i])'
            /\ IsActive(conns[i])' = b
            /\ heap'[conns[i].slot].callable = heap[conns[i].slot].callable
            /\ \A s \in DOMAIN heap \ {conns[i].slot} : heap'[s] = heap[s]

\* C11 (step part): the slot that Emit invokes has its flag set
InactiveSkipped == (pc = "loop" /\ pc' = "slot") => heap[running'].active

\* C11 (state part): in a pass whose slots did nothing but Activate, the
\* slots invoked were invoked in the order of their places in the list
InvokedInListOrder ==
    (PassDone /\ passOps \subseteq {"activate"}) =>
        /\ slots[emitSig] = atCall
        /\ \A a, b \in 1..Len(invoked) :
              a < b => Position(atCall, invoked[a]) < Position(atCall, invoked[b])

\* C11: Activate(false) makes Emit skip the slot and leaves it registered
\* in its place with everything else as it was; after Activate(true) Emit
\* invokes it again at its place in the connection order.
C11_ActivateToggles ==
    /\ [][ActivateOnlySetsFlag /\ InactiveSkipped]_vars
    /\ [](InvokedInListOrder)

\* a pass has invoked, after an earlier slot and in its place, a slot that
\* was inactive when Emit was called and that a running slot re-activated,
\* and has skipped a slot that is registered but inactive
C11_Witness ==
    /\ PassDone /\ passOps = {"activate"}
    /\ Len(invoked) >= 2
    /\ \E k \in 2..Len(invoked) :
          invoked[k] \in Range(atCall) \ Range(expected)
    /\ \E s \in Range(slots[emitSig]) :
          heap[s].callable /\ ~heap[s].active /\ s \notin Range(invoked)

\* C12 (step part): Activate on a terminated Connection changes nothing
ActivateOnTerminated ==
    \A i \in 1..Len(conns) : \A b \in BOOLEAN :
        (/\ lastOp'.op = "Activate"
         /\ IsTerminated(conns[i])
         /\ Activate(i, b)) =>
            UNCHANGED libVars

\* C12: a terminated Connection reports IsActive() false whatever was last
\* passed to Activate, and Activate on it changes no slot, signal or
\* Connection.
C12_TerminatedInactive ==
    /\ [](\A c \in AllConnections : IsTerminated(c) => ~IsActive(c))
    /\ [][ActivateOnTerminated]_vars

\* the last call was an Activate that found its slot gone, on a Connection
\* whose slot had been removed or whose signal had been destroyed, while an
\* inert Connection and a live slot exist too
C12_Witness ==
    /\ lastOp = [op |-> "Activate", hit |-> FALSE]
    /\ \E i \in 1..Len(conns) : conns[i].slot # Null /\ IsTerminated(conns[i])
    /\ \E i \in 1..Len(conns) : conns[i] = EmptyConnection
    /\ DOMAIN heap # {}

\* C13 (step part): a Connect with a null terminator, callable or member
\* function, hands back a Connection that is terminated and not active and
\* changes no list of slots and no list of an owner
NullOwnerConnect ==
    \A g \in Signals :
        (/\ lastOp'.op = "ConnectTerminator"
         /\ \/ \E f \in BOOLEAN : ConnectTerminator(g, f, Null, Null)
            \/ ConnectMember(g, Null)) =>
            /\ Len(conns') = Len(conns) + 1
            /\ IsTerminated(conns[Len(conns)])'
            /\ ~IsActive(conns[Len(conns)])'
            /\ UNCHANGED <<sigAlive, slots, heap, ownerAlive, ownerConns,
                           termCalls, itValid, passOps>>

\* C13 (step part): Terminate and Activate on an inert Connection change
\* nothing
InertCallsNoOps ==
    \A i \in 1..Len(conns) :
        (/\ lastOp'.op \in {"Terminate", "Activate"}
         /\ conns[i] = EmptyConnection
         /\ \/ Terminate(i)
            \/ \E b \in BOOLEAN : Activate(i, b)) =>
            UNCHANGED libVars

\* C13: Connect through a null owner returns an inert Connection and leaves
\* every signal's slots and every owner's connection list unchanged.
C13_NullOwnerInert == [][NullOwnerConnect /\ InertCallsNoOps]_vars

\* a Connect with a null terminator has just returned, on a signal that
\* has slots, while an owner holds a connection
C13_Witness ==
    /\ lastOp = [op |-> "ConnectTerminator", hit |-> FALSE]
    /\ conns[Len(conns)] = EmptyConnection
    /\ via[Len(conns)] = Null
    /\ \E g \in Signals : Len(slots[g]) >= 1
    /\ \E o \in Owners : Len(ownerConns[o]) >= 1

\* C14 (step part): the slot that Emit invokes was not connected through
\* an owner that has been destroyed or that has terminated its connections
OwnedNotInvokedAfter ==
    (pc = "loop" /\ pc' = "slot") =>
        \A i \in 1..Len(conns) :
            (conns[i].slot = running' /\ via[i] # Null) =>
                /\ ownerAlive[via[i]]
                /\ termCalls[running'] = 0
                /\ \E c \in Range(ownerConns[via[i]]) : c.slot = running'

\* C14 (step part): once the owner's TerminateAll or destructor has run,
\* none of the slots connected through it is in a list
OwnerEndRemoves ==
    \A o \in Owners :
        (/\ lastOp'.op \in {"OwnerTerminateAll", "DestroyOwner"}
         /\ \/ OwnerTerminateAll(o)
            \/ DestroyOwner(o)) =>
            \A i \in 1..Len(conns) :
                via[i] = o =>
                    \A g \in Signals : conns[i].slot \notin Range(slots'[g])

\* C14 (state part): a pass that no slot disturbed has invoked every slot
\* that was due, those not connected through an owner included
OthersStillInvoked ==
    (PassDone /\ passOps = {}) =>
        \A s \in Range(atCall) :
            (heap[s].callable /\ heap[s].active) => s \in Range(invoked)

\* C14: no Emit that starts after an owner was destroyed, or after its
\* TerminateAll, invokes a slot connected through that owner (bound to a
\* member function or not); the other slots of the signal are invoked.
C14_OwnedSlotsSilenced ==
    /\ [][OwnedNotInvokedAfter /\ OwnerEndRemoves]_vars
    /\ [](OthersStillInvoked)

\* a pass over a signal has invoked a slot connected without owner, after
\* the owner through which another slot of that signal was connected was
\* destroyed
C14_Witness ==
    /\ PassDone /\ passOps = {} /\ invoked # <<>>
    /\ \E i, j \in 1..Len(conns) :
          /\ conns[i].signal = emitSig /\ conns[j].signal = emitSig
          /\ via[i] # Null /\ ~ownerAlive[via[i]]
          /\ termCalls[conns[i].slot] = 1
          /\ conns[i].slot \notin Range(invoked)
          /\ via[j] = Null /\ conns[j].slot \in Range(invoked)

\* C15: immediately after AutoTerminator::TerminateAll() returns, every
\* connection the owner held reports IsTerminated() and the owner's
\* GetConnectionCount() is 0.
C15_TerminateAllEmpties ==
    [][\A o \in Owners :
          (lastOp'.op = "OwnerTerminateAll" /\ OwnerTerminateAll(o)) =>
              /\ \A c \in Range(ownerConns[o]) : IsTerminated(c)'
              /\ GetConnectionCount(o)' = 0]_vars

\* C16: every slot invoked in a pass receives the values that were passed
\* to Emit, named or temporary.
C16_SlotsReceiveEmitValues ==
    \A k \in 1..Len(received) : received[k] = EmitValue

\* C17 (step part): a Connect on a live signal (through no owner or through
\* a live one) appends one new Slot at the back of that signal's list,
\* leaves the slots that were there, their order and their flags as they
\* were, and returns a Connection to the new Slot that is not terminated
\* and is active
ConnectAppends ==
    \A g \in Signals :
        (/\ lastOp'.op \in {"Connect", "ConnectTerminator"}
         /\ lastOp'.hit
         /\ \/ \E f \in BOOLEAN : Connect(g, f)
            \/ \E f \in BOOLEAN, o \in Owners : ConnectTerminator(g, f, o, Null)
            \/ \E o \in Owners : ConnectMember(g, o)) =>
            LET new == slots'[g][Len(slots'[g])]
            IN /\ Len(slots'[g]) = Len(slots[g]) + 1
               /\ SubSeq(slots'[g], 1, Len(slots[g])) = slots[g]
               /\ new \notin DOMAIN heap
               /\ \A h \in Signals \ {g} : slots'[h] = slots[h]
               /\ \A s \in DOMAIN heap : s \in DOMAIN heap' /\ heap'[s] = heap[s]
               /\ conns' = Append(conns, Connection(new, g))
               /\ ~IsTerminated(conns[Len(conns)])'
               /\ IsActive(conns[Len(conns)])'

\* C17: Connect appends exactly one slot at the end of the signal's list
\* and returns a Connection that is neither terminated nor inactive.
C17_ConnectAppendsActive == [][ConnectAppends]_vars

\* a Connect has just returned on a signal that already had a slot that
\* was switched off: the new slot is the last of the list and is active
C17_Witness ==
    /\ lastOp = [op |-> "Connect", hit |-> TRUE]
    /\ LET c == conns[Len(conns)]
       IN /\ Len(slots[c.signal]) >= 2
          /\ slots[c.signal][Len(slots[c.signal])] = c.slot
          /\ IsActive(c)
          /\ ~heap[slots[c.signal][1]].active

\* C18 (step part): Signal::TerminateAll leaves the signal without slots
\* and every Connection made on it terminated; the lists of the other
\* signals, the slots in them, the lists of the owners and the signals
\* themselves are as before
SignalTerminateAllClears ==
    \A g \in Signals :
        (lastOp'.op = "SignalTerminateAll" /\ SignalTerminateAll(g)) =>
            /\ slots'[g] = <<>>
            /\ sigAlive'[g]
            /\ \A c \in AllConnections : c.signal = g => IsTerminated(c)'
            /\ \A h \in Signals \ {g} : slots'[h] = slots[h]
            /\ \A s \in DOMAIN heap \ Range(slots[g]) :
                  s \in DOMAIN heap' /\ heap'[s] = heap[s]
            /\ UNCHANGED <<sigAlive, conns, ownerAlive, ownerConns>>

\* C18 (state part): a pass over a list that was empty when Emit was called
\* and to which nothing was connected since has invoked nothing
EmptyListInvokesNothing ==
    (pc # "idle" /\ atCall = <<>> /\ "connect" \notin passOps) =>
        invoked = <<>>

\* C18 (step part): a Connect on a signal without slots makes its list the
\* one new slot
ConnectOnEmptied ==
    \A g \in Signals :
        (/\ lastOp'.op = "Connect"
         /\ slots[g] = <<>>
         /\ \E f \in BOOLEAN : Connect(g, f)) =>
            /\ Len(slots'[g]) = 1
            /\ conns'[Len(conns')] = Connection(slots'[g][1], g)
            /\ ~IsTerminated(conns[Len(conns)])'

\* C18: after Signal::TerminateAll every Connection made on the signal is
\* terminated, Emit invokes nothing and Connect works as on a new signal;
\* other signals' slots and all owners' lists are unchanged.
C18_SignalTerminateAll ==
    /\ [][SignalTerminateAllClears /\ ConnectOnEmptied]_vars
    /\ [](EmptyListInvokesNothing)

\* Signal::TerminateAll has just removed the slots of a signal, one of them
\* held by an owner, while the other signal has a slot
C18_Witness ==
    /\ lastOp = [op |-> "SignalTerminateAll", hit |-> TRUE]
    /\ \E g, h \in Signals :
          /\ g # h /\ sigAlive[g] /\ slots[g] = <<>> /\ slots[h] # <<>>
          /\ \E i \in 1..Len(conns) :
                /\ conns[i].signal = g /\ IsTerminated(conns[i])
                /\ termCalls[conns[i].slot] = 0
                /\ via[i] # Null
                /\ conns[i] \in Range(ownerConns[via[i]])

\* C19: a Connection is not terminated exactly when the Slot its Connect
\* created is an element of the list of a signal that is alive.
C19_TerminatedIffAbsent ==
    \A c \in AllConnections :
        ~IsTerminated(c) <=>
            /\ c.slot # Null
            /\ \E g \in Signals : sigAlive[g] /\ c.slot \in Range(slots[g])

\* of three Connections one is live, one was terminated by Terminate and
\* one lost its signal
C19_Witness ==
    /\ Len(conns) = 3
    /\ \E i, j, k \in 1..3 :
          /\ ~IsTerminated(conns[i])
          /\ conns[j].slot # Null /\ IsTerminated(conns[j])
          /\ termCalls[conns[j].slot] = 1 /\ sigAlive[conns[j].signal]
          /\ conns[k].slot # Null /\ IsTerminated(conns[k])
          /\ termCalls[conns[k].slot] = 0 /\ ~sigAlive[conns[k].signal]

\* C20 (step part): Terminate on a Connection whose slot is in a list takes
\* that one element out of that list and destroys that one Slot; on any
\* other Connection it changes nothing
TerminateFrame ==
    \A i \in 1..Len(conns) :
        (lastOp'.op = "Terminate" /\ Terminate(i)) =>
            LET c == conns[i]
            IN IF c.slot # Null /\ ~SignalExpired(c.signal)
                  /\ c.slot \in Range(slots[c.signal])
               THEN /\ slots'[c.signal] =
                          SelectSeq(slots[c.signal], LAMBDA s : s # c.slot)
                    /\ Len(slots'[c.signal]) = Len(slots[c.signal]) - 1
                    /\ \A h \in Signals \ {c.signal} : slots'[h] = slots[h]
                    /\ DOMAIN heap' = DOMAIN heap \ {c.slot}
                    /\ \A s \in DOMAIN heap' : heap'[s] = heap[s]
                    /\ UNCHANGED <<sigAlive, conns, ownerAlive, ownerConns>>
               ELSE UNCHANGED <<progVars, ghostVars>>

\* C20: Connection::Terminate removes at most the slot of its own Connect;
\* the other slots keep presence, order and flags, and nothing changes
\* when the slot is gone or the signal destroyed.
C20_TerminateOnlyOwnSlot == [][TerminateFrame]_vars

\* the middle one of three slots of a signal has just been terminated, the
\* first being switched off
C20_Witness ==
    /\ lastOp = [op |-> "Terminate", hit |-> TRUE]
    /\ Len(conns) = 3
    /\ \A i \in 1..3 : conns[i].slot # Null
    /\ termCalls[conns[2].slot] = 1
    /\ conns[1].signal = conns[2].signal /\ conns[3].signal = conns[2].signal
    /\ slots[conns[2].signal] = <<conns[1].slot, conns[3].slot>>
    /\ ~heap[conns[1].slot].active /\ heap[conns[3].slot].active

\* the copy of the i-th Connection that its owner holds: the owner's
\* connections_ only grows at the back, one element per Connect through it
OwnerCopy(i) ==
    ownerConns[via[i]][Cardinality({j \in 1..i : via[j] = via[i]})]

\* C21 (step part): a Connect through a live owner adds one slot to the
\* signal and one Connection, to that slot, at the back of that owner's
\* list; the caller is given a Connection to the same slot
OwnerConnectRegisters ==
    \A g \in Signals : \A o \in Owners :
        (/\ lastOp'.op = "ConnectTerminator"
         /\ \/ \E f \in BOOLEAN : ConnectTerminator(g, f, o, Null)
            \/ ConnectMember(g, o)) =>
            LET new == slots'[g][Len(slots'[g])]
            IN /\ Len(slots'[g]) = Len(slots[g]) + 1
               /\ DOMAIN heap' = DOMAIN heap \cup {new}
               /\ new \notin DOMAIN heap
               /\ \A h \in Signals \ {g} : slots'[h] = slots[h]
               /\ ownerConns'[o] = Append(ownerConns[o], Connection(new, g))
               /\ \A p \in Owners \ {o} : ownerConns'[p] = ownerConns[p]
               /\ conns' = Append(conns, Connection(new, g))

\* C21 (step part): a Connect without owner adds one slot and leaves the
\* list of every owner as it was
PlainConnectNoOwner ==
    \A g \in Signals :
        (lastOp'.op = "Connect" /\ \E f \in BOOLEAN : Connect(g, f)) =>
            /\ Len(slots'[g]) = Len(slots[g]) + 1
            /\ Cardinality(DOMAIN heap') = Cardinality(DOMAIN heap) + 1
            /\ UNCHANGED ownerConns

\* C21: an owner-bound Connect adds exactly one slot and exactly one
\* Connection to that slot in that owner's list; a plain Connect adds one
\* slot and changes no owner's list.
C21_OwnerConnectRegistersOnce ==
    [][OwnerConnectRegisters /\ PlainConnectNoOwner]_vars

\* a second Connect through the same owner has just returned, after a
\* Connect without owner
C21_Witness ==
    /\ lastOp = [op |-> "ConnectTerminator", hit |-> TRUE]
    /\ via[Len(conns)] # Null
    /\ Len(ownerConns[via[Len(conns)]]) = 2
    /\ ownerConns[via[Len(conns)]][2] = conns[Len(conns)]
    /\ \E i \in 1..Len(conns) : via[i] = Null /\ conns[i].slot # Null
    /\ Cardinality(DOMAIN heap) = 3

\* C22 (step part): a Terminate, a TerminateAll or the destruction of an
\* owner, when every slot it asks to remove has been removed before,
\* leaves the lists, the slots and the count of removals as they were
LaterRequestsNoOp ==
    /\ \A i \in 1..Len(conns) :
          (/\ lastOp'.op = "Terminate"
           /\ conns[i].slot # Null /\ termCalls[conns[i].slot] >= 1
           /\ Terminate(i)) => UNCHANGED <<slots, heap, termCalls>>
    /\ \A o \in Owners :
          (/\ lastOp'.op \in {"OwnerTerminateAll", "DestroyOwner"}
           /\ \A c \in Range(ownerConns[o]) : termCalls[c.slot] >= 1
           /\ \/ OwnerTerminateAll(o)
              \/ DestroyOwner(o)) => UNCHANGED <<slots, heap, termCalls>>

\* C22: SignalImpl::Terminate is executed at most once for a slot, however
\* often the owner's TerminateAll, its destructor and the caller's
\* Terminate ask for it; the later requests change nothing.
C22_RemovedAtMostOnce ==
    /\ [](\A s \in SlotIds : termCalls[s] <= 1)
    /\ [][LaterRequestsNoOp]_vars

\* the caller has just terminated its Connection of a live signal after
\* the owner of that Connection was destroyed: the slot was removed once
C22_Witness ==
    /\ lastOp = [op |-> "Terminate", hit |-> FALSE]
    /\ \A i \in 1..Len(conns) :
          /\ via[i] # Null /\ ~ownerAlive[via[i]]
          /\ sigAlive[conns[i].signal]
          /\ termCalls[conns[i].slot] = 1
    /\ Len(conns) >= 2

\* C23 (state part): while the owner lives, the Connection given to the
\* caller and the owner's copy report the same
CopiesAgree ==
    \A i \in 1..Len(conns) :
        (via[i] # Null /\ ownerAlive[via[i]]) =>
            /\ IsTerminated(OwnerCopy(i)) = IsTerminated(conns[i])
            /\ IsActive(OwnerCopy(i)) = IsActive(conns[i])

\* C23 (step part): what Terminate or Activate does through the caller's
\* Connection shows in the owner's copy, and what the owner's TerminateAll
\* does through the copies shows in the caller's Connections
SeenThroughOther ==
    /\ \A i \in 1..Len(conns) :
          (/\ lastOp'.op = "Terminate"
           /\ via[i] # Null /\ ownerAlive[via[i]]
           /\ Terminate(i)) => IsTerminated(OwnerCopy(i))'
    /\ \A i \in 1..Len(conns) : \A b \in BOOLEAN :
          (/\ lastOp'.op = "Activate"
           /\ via[i] # Null /\ ownerAlive[via[i]]
           /\ ~IsTerminated(conns[i])
           /\ Activate(i, b)) => IsActive(OwnerCopy(i))' = b
    /\ \A o \in Owners :
          (lastOp'.op = "OwnerTerminateAll" /\ OwnerTerminateAll(o)) =>
              \A i \in 1..Len(conns) : via[i] = o => IsTerminated(conns[i])'

\* C23: the Connection returned by an owner-bound Connect and the copy in
\* the owner's list always report the same IsTerminated() and IsActive(),
\* and a Terminate or Activate through one is seen through the other.
C23_CopiesAgree == [](CopiesAgree) /\ [][SeenThroughOther]_vars

\* of two Connections made through a live owner, on a signal that had a
\* slot before, the caller has just terminated one and has switched the
\* other off: the owner's copies report terminated and inactive
C23_Witness ==
    /\ lastOp = [op |-> "Terminate", hit |-> TRUE]
    /\ Len(conns) = 3
    /\ via[1] = Null /\ conns[1].slot # Null
    /\ via[2] # Null /\ via[3] = via[2] /\ ownerAlive[via[2]]
    /\ conns[2].signal = conns[1].signal /\ conns[3].signal = conns[1].signal
    /\ IsTerminated(OwnerCopy(2)) /\ termCalls[conns[2].slot] = 1
    /\ ~IsTerminated(OwnerCopy(3)) /\ ~IsActive(OwnerCopy(3))

\* C24: an Emit invokes at most as many slots as the signal had when it
\* was called, also when running slots connect slots to the same signal.
C24_InvocationsBounded == pc # "idle" => Len(invoked) <= Len(atCall)

\* the slot_id_ the weak_ptr w of a disconnector leads to
RecordedId(w) == idSignal[w.signal].connections[w.index]

\* C25 (step part): a Connect of the signal of class v that returns has
\* returned the value the counter had, has stored the slot under that key,
\* which was free, and has advanced the counter by one
ConsumesOneId(v) ==
    /\ Len(returned'[v]) = Len(returned[v]) + 1
    /\ returned'[v][Len(returned'[v])] = idSignal[v].actual_id
    /\ idSignal[v].actual_id \notin idSignal[v].slots
    /\ idSignal'[v].slots = idSignal[v].slots \cup {idSignal[v].actual_id}
    /\ idSignal'[v].actual_id = idSignal[v].actual_id + 1
    /\ \A u \in Variants \ {v} :
          idSignal'[u] = idSignal[u] /\ returned'[u] = returned[u]

\* C25 (step part): a Connect through the disconnector d has added one
\* Connection record to the signal and one reference to it to d, and the
\* id in the record is the id returned
RecordsSameId(v, d) ==
    /\ Len(idSignal'[v].connections) = Len(idSignal[v].connections) + 1
    /\ Len(disconnector'[d].connections) =
          Len(disconnector[d].connections) + 1
    /\ LET w == disconnector'[d].connections[Len(disconnector'[d].connections)]
       IN /\ w.signal = v
          /\ w.index = Len(idSignal'[v].connections)
          /\ idSignal'[v].connections[w.index] =
                returned'[v][Len(returned'[v])]

\* C25 (step part): every Connect of either class, with or without a
\* disconnector, consumes one id
EveryConnectConsumesOne ==
    /\ ITOMConnect =>
          ConsumesOneId("ITOMSignal") /\ UNCHANGED disconnector
    /\ ITSConnect =>
          ConsumesOneId("ITSignals") /\ UNCHANGED disconnector
    /\ \A d \in Disconnectors :
          ITOMConnectDisconnector(d) =>
              ConsumesOneId("ITOMSignal") /\ RecordsSameId("ITOMSignal", d)
    /\ \A d \in Disconnectors :
          ITSConnectDisconnector(d) =>
              ConsumesOneId("ITSignals") /\ RecordsSameId("ITSignals", d)

\* C25 (state part): the n Connects of a signal have returned 0..n-1 in
\* this order, the counter is n, every key and every recorded id is one of
\* them, and while Disconnect was never called the keys are 0..n-1
IdsDense ==
    \A v \in Variants :
        (~idCrashed /\ idSignal[v].alive) =>
            /\ idSignal[v].actual_id = Len(returned[v])
            /\ \A k \in 1..Len(returned[v]) : returned[v][k] = k - 1
            /\ idSignal[v].slots \subseteq Range(returned[v])
            /\ Range(idSignal[v].connections) \subseteq Range(returned[v])
            /\ ~idSignal[v].disconnected =>
                  /\ idSignal[v].slots = 0..(Len(returned[v]) - 1)
                  /\ Cardinality(idSignal[v].slots) = Len(returned[v])

\* C25: in both id-based Signal classes the id a Connect returns, the key
\* of the slot and the id recorded for the disconnector are equal, the
\* counter advances by one per Connect, and n Connects without Disconnect
\* leave n slots with the ids 0..n-1.
C25_OneIdPerConnect == [](IdsDense) /\ [][EveryConnectConsumesOne]_vars

\* both signals have had Connects through a disconnector, two of them in a
\* row on each, and no Disconnect: the disconnector holds the ids returned
C25_Witness ==
    /\ ~idCrashed
    /\ \A v \in Variants :
          /\ idSignal[v].alive /\ ~idSignal[v].disconnected
          /\ Len(returned[v]) = MaxIdConnects
          /\ Len(idSignal[v].connections) >= 2
          /\ idSignal[v].slots = 0..(MaxIdConnects - 1)
    /\ \E d \in Disconnectors :
          /\ disconnector[d].alive
          /\ Len(disconnector[d].connections) >= 4
          /\ \A k \in 1..Len(disconnector[d].connections) :
                RecordedId(disconnector[d].connections[k]) \in
                    idSignal[disconnector[d].connections[k].signal].slots

TypeOK ==
    /\ DOMAIN heap \subseteq SlotIds
    /\ \A g \in Signals : Range(slots[g]) \subseteq DOMAIN heap
    /\ pc \in {"idle", "loop", "slot"}

====
